---- MODULE Spec2Model ----
(***************************************************************************)
(* Model of bet/calculateP/voronoiBoundingPoints.py: the regular grids of  *)
(* voronoi points around a hyperrectangle, the edges and volumes of the    *)
(* cells they define and the simple function approximation of a uniform    *)
(* density.                                                                *)
(*                                                                         *)
(* Numbers are exact rationals <<numerator, denominator>> in lowest terms  *)
(* with a positive denominator; <<1, 0>> is the float +inf that numpy      *)
(* produces for 1/0.  Floating point rounding is not modelled.  Arrays are *)
(* sequences, a 2-d array is a sequence of rows.  The functions are        *)
(* modelled statement by statement as their bodies read (the stray indent  *)
(* of lines 78 and 185 is read as the indent of the sibling branches).     *)
(* A call ends in a record whose field kind is "tuple"/"list"/"array" for  *)
(* a returned value, "None" for `return None`, or the name of the python   *)
(* exception the body raises.                                              *)
(***************************************************************************)
EXTENDS Integers, Sequences, FiniteSets, TLC

VARIABLES inp, pc, gen, grid, edges, pts, vol, region, dens, cellpts

vars == <<inp, pc, gen, grid, edges, pts, vol, region, dens, cellpts>>

(* ---------------- bounds of the model ---------------- *)
MaxDim == 2
MaxCells == 3

(* ---------------- exact arithmetic ---------------- *)
Abs(x) == IF x < 0 THEN -x ELSE x

RECURSIVE GCD(_, _)
GCD(a, b) == IF b = 0 THEN a ELSE GCD(b, a % b)

Sign(x) == IF x < 0 THEN -1 ELSE IF x = 0 THEN 0 ELSE 1

Rat(n, d) ==
    IF d = 0 THEN <<Sign(n), 0>>
    ELSE LET g == GCD(Abs(n), Abs(d))
         IN <<(Sign(d) * n) \div g, Abs(d) \div g>>

R(i) == <<i, 1>>
RAdd(a, b) == Rat(a[1] * b[2] + b[1] * a[2], a[2] * b[2])
RSub(a, b) == Rat(a[1] * b[2] - b[1] * a[2], a[2] * b[2])
RMul(a, b) == Rat(a[1] * b[1], a[2] * b[2])
RDiv(a, b) == Rat(a[1] * b[2], a[2] * b[1])
RLe(a, b) == a[1] * b[2] <= b[1] * a[2]
RLt(a, b) == a[1] * b[2] < b[1] * a[2]
IsFinite(a) == a[2] # 0

RECURSIVE RSum(_)
RSum(s) == IF s = <<>> THEN R(0) ELSE RAdd(s[1], RSum(Tail(s)))

RECURSIVE Prod(_)
Prod(s) == IF s = <<>> THEN 1 ELSE s[1] * Prod(Tail(s))

Half == <<1, 2>>

(* ---------------- inputs ---------------- *)
(* a domain with the same interval in every dimension, and one whose     *)
(* intervals differ in position and width from one dimension to the next *)
DomainChoices(m) ==
    {[d \in 1..m |-> <<R(0), R(4)>>],
     [d \in 1..m |-> IF d % 2 = 1 THEN <<R(-1), R(2)>> ELSE <<R(0), R(4)>>]}
CenterChoices == {R(0), R(1), R(2)}
RatioChoices == {<<1, 4>>, <<1, 2>>, R(1), <<3, 2>>}

(* the largest number of dimensions the generators build points for *)
MaxMeshDim == 4

LowDimInputs ==
    UNION {
        { [center_pts_per_edge |-> c, center |-> ce, r_ratio |-> r, sur_domain |-> D] :
            c \in [1..m -> 1..MaxCells], ce \in [1..m -> CenterChoices],
            r \in RatioChoices, D \in DomainChoices(m) }
        : m \in 1..MaxDim }

(* one dimension more than the generators handle, with the same center    *)
(* coordinate and the same number of cells in every dimension             *)
HighDimCells == {1, 2}

HighDimInputs ==
    { [center_pts_per_edge |-> [d \in 1..(MaxMeshDim + 1) |-> c],
       center |-> [d \in 1..(MaxMeshDim + 1) |-> ce],
       r_ratio |-> r, sur_domain |-> D] :
        c \in HighDimCells, ce \in CenterChoices,
        r \in RatioChoices, D \in DomainChoices(MaxMeshDim + 1) }

Inputs == LowDimInputs \cup HighDimInputs

mdim(sur_domain) == Len(sur_domain)

(* ---------------- the hyperrectangle ---------------- *)
sur_width(sur_domain) ==
    [d \in 1..Len(sur_domain) |-> RSub(sur_domain[d][2], sur_domain[d][1])]

rect_width(r_ratio, sur_domain) ==
    [d \in 1..Len(sur_domain) |-> RMul(r_ratio, sur_width(sur_domain)[d])]

rect_domain(center, r_ratio, sur_domain) ==
    [d \in 1..Len(sur_domain) |->
        <<RSub(center[d], RMul(Half, rect_width(r_ratio, sur_domain)[d])),
          RAdd(center[d], RMul(Half, rect_width(r_ratio, sur_domain)[d]))>>]

(* np.all(np.greater_equal(sur_domain[:,0], rect_domain[:,0])) *)
left_outside(rect, sur_domain) ==
    \A d \in 1..Len(sur_domain) : RLe(rect[d][1], sur_domain[d][1])

(* np.all(np.less_equal(sur_domain[:,1], rect_domain[:,1])) *)
right_outside(rect, sur_domain) ==
    \A d \in 1..Len(sur_domain) : RLe(sur_domain[d][2], rect[d][2])

(* layer1_left with a margin of a whole cell width instead of half of one *)
layer1_left_whole_cell(rect, rwidth, center_pts_per_edge) ==
    [d \in 1..Len(rect) |->
        RSub(rect[d][1], RDiv(rwidth[d], R(center_pts_per_edge[d])))]

layer1_left(rect, rwidth, center_pts_per_edge) ==
    [d \in 1..Len(rect) |->
        RSub(rect[d][1], RDiv(rwidth[d], R(2 * center_pts_per_edge[d])))]

layer1_right(rect, rwidth, center_pts_per_edge) ==
    [d \in 1..Len(rect) |->
        RAdd(rect[d][2], RDiv(rwidth[d], R(2 * center_pts_per_edge[d])))]

(* np.linspace(start, stop, num) *)
linspace(start, stop, num) ==
    IF num = 1 THEN <<start>>
    ELSE LET step == RDiv(RSub(stop, start), R(num - 1))
         IN [i \in 1..num |->
                IF i = num THEN stop ELSE RAdd(RMul(R(i - 1), step), start)]

(* np.meshgrid(..., indexing='ij'), ravel and vstack: row d holds         *)
(* coordinate d of every point, the last dimension varying fastest.       *)
Lens(ladders) == [d \in 1..Len(ladders) |-> Len(ladders[d])]

Stride(lens, d) == Prod(SubSeq(lens, d + 1, Len(lens)))

MultiIndex(lens, k, d) == (((k - 1) \div Stride(lens, d)) % lens[d]) + 1

meshgrid_points(ladders) ==
    IF Len(ladders) = 1 THEN [ndim |-> 1, a |-> ladders[1]]
    ELSE IF Len(ladders) <= MaxMeshDim
    THEN LET lens == Lens(ladders)
             n == Prod(lens)
         IN  [ndim |-> 2,
              a |-> [d \in 1..Len(ladders) |->
                        [k \in 1..n |-> ladders[d][MultiIndex(lens, k, d)]]]]
    ELSE [ndim |-> 0, a |-> <<>>]

center_and_layer1_points(center_pts_per_edge, center, r_ratio, sur_domain) ==
    LET rwidth == rect_width(r_ratio, sur_domain)
        rect == rect_domain(center, r_ratio, sur_domain)
        l1l == layer1_left(rect, rwidth, center_pts_per_edge)
        l1r == layer1_right(rect, rwidth, center_pts_per_edge)
        interior_and_layer1 ==
            [d \in 1..Len(sur_domain) |->
                linspace(l1l[d], l1r[d], center_pts_per_edge[d] + 2)]
    IN  IF RLt(R(1), r_ratio) THEN [kind |-> "None"]
        ELSE IF left_outside(rect, sur_domain) THEN [kind |-> "None"]
        ELSE IF right_outside(rect, sur_domain) THEN [kind |-> "None"]
        ELSE [kind |-> "tuple",
              points |-> meshgrid_points(interior_and_layer1),
              interior_and_layer1 |-> interior_and_layer1]

(* lines 147 and 151: the layer-1 anchor mirrored at the domain minimum *)
layer2_left(l1l, sur_domain) ==
    [d \in 1..Len(sur_domain) |->
        RAdd(l1l[d], RMul(R(2), RSub(sur_domain[d][1], l1l[d])))]

(* line 152 reads layer2_right before any assignment to it; the record   *)
(* of the raise keeps layer2_left, the local bound just before it        *)
center_and_layer2_points(center_pts_per_edge, center, r_ratio, sur_domain) ==
    LET rwidth == rect_width(r_ratio, sur_domain)
        rect == rect_domain(center, r_ratio, sur_domain)
        l1l == layer1_left(rect, rwidth, center_pts_per_edge)
        l1r == layer1_right(rect, rwidth, center_pts_per_edge)
        interior_and_layer1 ==
            [d \in 1..Len(sur_domain) |->
                linspace(l1l[d], l1r[d], center_pts_per_edge[d] + 2)]
    IN  IF RLt(R(1), r_ratio) THEN [kind |-> "None"]
        ELSE IF left_outside(rect, sur_domain) THEN [kind |-> "None"]
        ELSE IF right_outside(rect, sur_domain) THEN [kind |-> "None"]
        ELSE IF RLt(r_ratio, R(1))
        THEN [kind |-> "UnboundLocalError",
              layer2_left |-> layer2_left(l1l, sur_domain)]
        ELSE [kind |-> "tuple",
              points |-> meshgrid_points(interior_and_layer1),
              interior_and_layer1 |-> interior_and_layer1,
              interior_and_doublelayer |-> interior_and_layer1]

(* line 252 reads the name rect, which is never bound *)
edges_regular(center_pts_per_edge, center, r_ratio, sur_domain) ==
    LET rect == rect_domain(center, r_ratio, sur_domain)
    IN  IF RLt(R(1), r_ratio) THEN [kind |-> "None"]
        ELSE IF left_outside(rect, sur_domain) THEN [kind |-> "None"]
        ELSE IF right_outside(rect, sur_domain) THEN [kind |-> "None"]
        ELSE IF Len(sur_domain) >= 1 THEN [kind |-> "NameError"]
        ELSE [kind |-> "list", a |-> <<>>]

(* edges_from_points with the sum of neighbouring points left undivided *)
edges_from_points_sum(points) ==
    [d \in 1..Len(points) |->
        [i \in 1..(Len(points[d]) - 1) |->
            RAdd(points[d][i + 1], points[d][i])]]

edges_from_points(points) ==
    [d \in 1..Len(points) |->
        [i \in 1..(Len(points[d]) - 1) |->
            RDiv(RAdd(points[d][i + 1], points[d][i]), R(2))]]

(* the centers of the bins, lines 309-311 *)
bin_centers(edgs) ==
    [d \in 1..Len(edgs) |->
        [i \in 1..(Len(edgs[d]) - 1) |->
            RDiv(RAdd(edgs[d][i + 1], edgs[d][i]), R(2))]]

(* line 312 reads the name dimensions, which is never bound; the body    *)
(* has no return statement after it either                               *)
points_from_edges(edgs) ==
    IF Len(bin_centers(edgs)) >= 0 THEN [kind |-> "NameError"]
    ELSE [kind |-> "None"]

(* ---------------- volumes ---------------- *)
(* numpy's histogramdd bins: e[k] <= x < e[k+1], the last bin closed on   *)
(* the right; samples outside the edges are not counted.                  *)
InBin(x, e, k) ==
    /\ RLe(e[k], x)
    /\ \/ RLt(x, e[k + 1])
       \/ k = Len(e) - 1 /\ x = e[k + 1]

(* histogramdd reads a 1-d array of N values as N samples of dimension 1, *)
(* a 2-d array as one sample per row.                                     *)
Sample(points) ==
    IF points.ndim = 1 THEN [i \in 1..Len(points.a) |-> <<points.a[i]>>]
    ELSE points.a

Increasing(e) == \A i \in 1..(Len(e) - 1) : RLt(e[i], e[i + 1])

NBins(edgs) == [d \in 1..Len(edgs) |-> Len(edgs[d]) - 1]

(* H.ravel(): the count of every cell, the last dimension varying fastest *)
H(edgs, sample) ==
    LET nbins == NBins(edgs)
    IN  [k \in 1..Prod(nbins) |->
            Cardinality({i \in 1..Len(sample) :
                \A d \in 1..Len(edgs) :
                    InBin(sample[i][d], edgs[d], MultiIndex(nbins, k, d))})]

(* points = None (ndim 0) is read as one sample of dimension 1 *)
histogramdd_volumes(edgs, points) ==
    IF points.ndim = 0 THEN
        IF Len(edgs) # 1 THEN [kind |-> "ValueError"] ELSE [kind |-> "AttributeError"]
    ELSE IF Len(Sample(points)[1]) # Len(edgs) THEN [kind |-> "ValueError"]
    ELSE IF \E d \in 1..Len(edgs) : ~Increasing(edgs[d]) THEN [kind |-> "ValueError"]
    ELSE LET h == H(edgs, Sample(points))
         IN  [kind |-> "array",
              a |-> [k \in 1..Len(h) |-> RDiv(R(1), R(h[k] * Len(points.a)))]]

(* ---------------- density ---------------- *)
(* numpy shapes and broadcasting *)
Shape(points) ==
    IF points.ndim = 1 THEN <<Len(points.a)>>
    ELSE <<Len(points.a), Len(points.a[1])>>

Max(a, b) == IF a >= b THEN a ELSE b

Pad(s, n) == [i \in 1..n |-> IF i <= n - Len(s) THEN 1 ELSE s[i - (n - Len(s))]]

CanBroadcast(s, t) ==
    LET n == Max(Len(s), Len(t))
    IN  \A i \in 1..n :
            Pad(s, n)[i] = Pad(t, n)[i] \/ Pad(s, n)[i] = 1 \/ Pad(t, n)[i] = 1

BroadcastShape(s, t) ==
    LET n == Max(Len(s), Len(t))
    IN  [i \in 1..n |-> Max(Pad(s, n)[i], Pad(t, n)[i])]

(* the shape of np.all(x, axis=1) *)
AllAxis1(s) == <<s[1]>> \o SubSeq(s, 3, Len(s))

(* Every path through the body ends in an exception, decided by the       *)
(* shapes alone: rect_right is rect_domain[:1,] repeated, of shape         *)
(* (N, 1, 2), so the mask `inside` has at least two dimensions and cannot  *)
(* index the 1-d volumes; and the name spatial is never imported.          *)
simple_fun_approximation_uniform(points, volumes, rect) ==
    LET P == Shape(points)
        left0 == <<P[1], Len(rect)>>
        right0 == <<P[1], 1, 2>>
    IN  IF ~CanBroadcast(P, left0) THEN [kind |-> "ValueError"]
        ELSE IF ~CanBroadcast(P, right0) THEN [kind |-> "ValueError"]
        ELSE LET rect_left == AllAxis1(BroadcastShape(P, left0))
                 rect_right == AllAxis1(BroadcastShape(P, right0))
             IN  IF ~CanBroadcast(rect_left, rect_right) THEN [kind |-> "ValueError"]
                 ELSE IF Len(BroadcastShape(rect_left, rect_right)) > 1
                 THEN [kind |-> "IndexError"]
                 ELSE [kind |-> "NameError"]

(* ---------------- state machine ---------------- *)
NoResult == [kind |-> "none"]

Init ==
    /\ inp \in Inputs
    /\ pc = "start"
    /\ gen = "none"
    /\ grid = NoResult
    /\ edges = NoResult
    /\ pts = NoResult
    /\ vol = NoResult
    /\ region = <<>>
    /\ dens = NoResult
    /\ cellpts = NoResult

SingleLayerGrid ==
    /\ pc = "start"
    /\ grid' = center_and_layer1_points(inp.center_pts_per_edge, inp.center,
                                        inp.r_ratio, inp.sur_domain)
    /\ gen' = "single"
    /\ pc' = "grid"
    /\ UNCHANGED <<inp, edges, pts, vol, region, dens, cellpts>>

DoubleLayerGrid ==
    /\ pc = "start"
    /\ grid' = center_and_layer2_points(inp.center_pts_per_edge, inp.center,
                                        inp.r_ratio, inp.sur_domain)
    /\ gen' = "double"
    /\ pc' = "grid"
    /\ UNCHANGED <<inp, edges, pts, vol, region, dens, cellpts>>

RegularEdges ==
    /\ pc = "start"
    /\ edges' = edges_regular(inp.center_pts_per_edge, inp.center,
                              inp.r_ratio, inp.sur_domain)
    /\ gen' = "regular"
    /\ pc' = "edges"
    /\ UNCHANGED <<inp, grid, pts, vol, region, dens, cellpts>>

Ladders(g) ==
    IF gen = "double" THEN g.interior_and_doublelayer ELSE g.interior_and_layer1

EdgesFromPoints ==
    /\ pc = "grid"
    /\ grid.kind = "tuple"
    /\ edges' = [kind |-> "list", a |-> edges_from_points(Ladders(grid))]
    /\ pc' = "edges"
    /\ UNCHANGED <<inp, gen, grid, pts, vol, region, dens, cellpts>>

(* the points handed to histogramdd_volumes: the generator's points as    *)
(* returned, or, as the docstring asks, only the points of the finite     *)
(* cells as an array of shape (num_points, mdim), all of them or all but  *)
(* the first.                                                             *)
Interior(ladders) ==
    [d \in 1..Len(ladders) |-> SubSeq(ladders[d], 2, Len(ladders[d]) - 1)]

FinitePoints(ladders) ==
    LET interior == Interior(ladders)
        lens == Lens(interior)
    IN  [k \in 1..Prod(lens) |->
            [d \in 1..Len(ladders) |-> interior[d][MultiIndex(lens, k, d)]]]

PointChoices(g) ==
    LET finite == FinitePoints(Ladders(g))
    IN  {g.points, [ndim |-> 2, a |-> finite]}
        \cup (IF Len(finite) > 1 THEN {[ndim |-> 2, a |-> Tail(finite)]} ELSE {})

CellVolumes ==
    /\ pc = "edges"
    /\ edges.kind = "list"
    /\ gen \in {"single", "double"}
    /\ \E p \in PointChoices(grid) :
        /\ pts' = p
        /\ vol' = histogramdd_volumes(edges.a, p)
    /\ pc' = "volumes"
    /\ UNCHANGED <<inp, gen, grid, edges, region, dens, cellpts>>

FarRegion(sur_domain) ==
    [d \in 1..Len(sur_domain) |->
        <<RAdd(sur_domain[d][2], R(1)), RAdd(sur_domain[d][2], R(2))>>]

RegionChoices ==
    {rect_domain(inp.center, inp.r_ratio, inp.sur_domain), inp.sur_domain,
     FarRegion(inp.sur_domain)}

UniformDensity ==
    /\ pc = "volumes"
    /\ vol.kind = "array"
    /\ \E t \in RegionChoices :
        /\ region' = t
        /\ dens' = simple_fun_approximation_uniform(pts, vol.a, t)
    /\ pc' = "density"
    /\ UNCHANGED <<inp, gen, grid, edges, pts, vol, cellpts>>

PointsFromEdges ==
    /\ pc = "edges"
    /\ edges.kind = "list"
    /\ cellpts' = points_from_edges(edges.a)
    /\ pc' = "points"
    /\ UNCHANGED <<inp, gen, grid, edges, pts, vol, region, dens>>

Next ==
    \/ SingleLayerGrid
    \/ DoubleLayerGrid
    \/ RegularEdges
    \/ EdgesFromPoints
    \/ CellVolumes
    \/ UniformDensity
    \/ PointsFromEdges

Spec == Init /\ [][Next]_vars

(* ---------------- properties ---------------- *)
Rect == rect_domain(inp.center, inp.r_ratio, inp.sur_domain)
RectWidth == rect_width(inp.r_ratio, inp.sur_domain)
Dims == 1..Len(inp.sur_domain)
Cells(d) == inp.center_pts_per_edge[d]

(* what the generator that was called came back with *)
GenResult == IF gen = "regular" THEN edges ELSE grid

(* the input gets past the three checks the generators start with *)
PassesValidation ==
    /\ ~RLt(R(1), inp.r_ratio)
    /\ ~left_outside(Rect, inp.sur_domain)
    /\ ~right_outside(Rect, inp.sur_domain)

StrictlyInside ==
    \A d \in Dims :
        /\ RLt(inp.sur_domain[d][1], Rect[d][1])
        /\ RLt(Rect[d][2], inp.sur_domain[d][2])

(* C1: a call of singleLayerGrid, doubleLayerGrid or regularEdges with    *)
(* ratio > 1 ends in a DomainError, never in a point set, an edge set or  *)
(* a None-like value.                                                     *)
C1_RatioAboveOneIsDomainError ==
    (gen # "none" /\ RLt(R(1), inp.r_ratio)) => GenResult.kind = "DomainError"

(* C2: singleLayerGrid and doubleLayerGrid produce a point set only when  *)
(* the hyperrectangle is strictly inside the domain on both faces in      *)
(* every dimension; one face of one dimension at or beyond the domain     *)
(* boundary is enough for the call to fail.                               *)
C2_PointSetOnlyIfStrictlyInside ==
    (gen \in {"single", "double"} /\ ~StrictlyInside) => grid.kind # "tuple"

SingleAccepted == gen = "single" /\ grid.kind = "tuple"

InteriorOf(ladder) == SubSeq(ladder, 2, Len(ladder) - 1)

(* C3 as stated: for an accepted input with ratio in (0,1) every ladder   *)
(* of singleLayerGrid has cellsPerEdge+2 entries and its interior         *)
(* sub-range equals linspace(hyperrectangle minimum, hyperrectangle       *)
(* maximum, cellsPerEdge).                                                *)
C3_InteriorIsLinspaceOverBounds ==
    (SingleAccepted /\ RLt(inp.r_ratio, R(1))) =>
        \A d \in Dims :
            /\ Len(grid.interior_and_layer1[d]) = Cells(d) + 2
            /\ InteriorOf(grid.interior_and_layer1[d])
                   = linspace(Rect[d][1], Rect[d][2], Cells(d))

(* C3 amended: for an accepted input with ratio in (0,1) every ladder of  *)
(* singleLayerGrid has cellsPerEdge+2 entries and its k-th interior entry *)
(* is the centre of the k-th of cellsPerEdge equal cells of the           *)
(* hyperrectangle: minimum + (2k-1) * width / (2 * cellsPerEdge).         *)
C3_InteriorIsCellCentres ==
    (SingleAccepted /\ RLt(inp.r_ratio, R(1))) =>
        \A d \in Dims :
            /\ Len(grid.interior_and_layer1[d]) = Cells(d) + 2
            /\ \A k \in 1..Cells(d) :
                   InteriorOf(grid.interior_and_layer1[d])[k]
                       = RAdd(Rect[d][1],
                              RDiv(RMul(R(2 * k - 1), RectWidth[d]), R(2 * Cells(d))))

C3_Witness ==
    /\ SingleAccepted
    /\ RLt(inp.r_ratio, R(1))
    /\ \E d \in Dims : Cells(d) >= 2

(* C4: the edges edgesFromPoints derives from singleLayerGrid's ladder    *)
(* are, in every dimension, cellsPerEdge+1 equally spaced values from the *)
(* hyperrectangle minimum to its maximum, and the two layer-1 anchors sit *)
(* half an interior cell width outside the hyperrectangle.                *)
C4_EdgesTileHyperrectangle ==
    (gen = "single" /\ edges.kind = "list") =>
        \A d \in Dims :
            /\ Len(edges.a[d]) = Cells(d) + 1
            /\ \A i \in 1..(Cells(d) + 1) :
                   edges.a[d][i]
                       = RAdd(Rect[d][1], RDiv(RMul(R(i - 1), RectWidth[d]), R(Cells(d))))
            /\ edges.a[d][Cells(d) + 1] = Rect[d][2]
            /\ RSub(Rect[d][1], grid.interior_and_layer1[d][1])
                   = RDiv(RectWidth[d], R(2 * Cells(d)))
            /\ RSub(grid.interior_and_layer1[d][Cells(d) + 2], Rect[d][2])
                   = RDiv(RectWidth[d], R(2 * Cells(d)))

C4_Witness ==
    /\ gen = "single"
    /\ edges.kind = "list"
    /\ Len(inp.sur_domain) = 2
    /\ Cells(1) # Cells(2)

(* C5: for an accepted input with ratio < 1 doubleLayerGrid returns an    *)
(* interior+2-layer ladder per dimension whose first and last edge, as    *)
(* edgesFromPoints computes them, are the domain minimum and maximum.     *)
C5_OuterEdgesOnDomainBoundary ==
    (gen = "double" /\ PassesValidation /\ RLt(inp.r_ratio, R(1))) =>
        /\ grid.kind = "tuple"
        /\ \A d \in Dims :
            LET e == edges_from_points(grid.interior_and_doublelayer)[d]
            IN  e[1] = inp.sur_domain[d][1] /\ e[Len(e)] = inp.sur_domain[d][2]

(* C6: with ratio = 1 and the hyperrectangle being the whole domain,      *)
(* singleLayerGrid and doubleLayerGrid both return a point set, the two   *)
(* point sets are identical and the interior+2-layer ladder equals the    *)
(* interior+1-layer ladder.                                               *)
C6_RatioOneTilesDomain ==
    (gen \in {"single", "double"} /\ inp.r_ratio = R(1) /\ Rect = inp.sur_domain) =>
        /\ grid.kind = "tuple"
        /\ center_and_layer1_points(inp.center_pts_per_edge, inp.center,
                                    inp.r_ratio, inp.sur_domain).points
             = center_and_layer2_points(inp.center_pts_per_edge, inp.center,
                                        inp.r_ratio, inp.sur_domain).points
        /\ gen = "double" => grid.interior_and_doublelayer = grid.interior_and_layer1

(* the points of pts that lie in region, bounds included *)
InsidePoints ==
    {i \in 1..Len(Sample(pts)) :
        \A d \in 1..Len(region) :
            /\ RLe(region[d][1], Sample(pts)[i][d])
            /\ RLe(Sample(pts)[i][d], region[d][2])}

InsideVolume == RSum([i \in 1..Len(vol.a) |-> IF i \in InsidePoints THEN vol.a[i] ELSE R(0)])

(* C7: uniformDensity gives every point inside targetRegion (bounds       *)
(* included) the density volumes[i] / sum of the inside volumes and every *)
(* other point 0, so the density sums to 1 when a point is inside.        *)
C7_DensityOfInsidePoints ==
    (pc = "density" /\ InsidePoints # {}) =>
        /\ dens.kind = "tuple"
        /\ Len(dens.rho_D_M) = Len(Sample(pts))
        /\ \A i \in 1..Len(dens.rho_D_M) :
               dens.rho_D_M[i] = IF i \in InsidePoints
                                 THEN RDiv(vol.a[i], InsideVolume) ELSE R(0)
        /\ RSum(dens.rho_D_M) = R(1)

(* C8: when no point lies inside targetRegion, uniformDensity ends in an  *)
(* EmptySupportError.                                                     *)
C8_EmptySupportIsError ==
    (pc = "density" /\ InsidePoints = {}) => dens.kind = "EmptySupportError"

(* the number of points of pts in the cell of edges that holds point i *)
CountInCellOf(i) ==
    Cardinality({j \in 1..Len(Sample(pts)) :
        \A d \in 1..Len(edges.a) : \A k \in 1..(Len(edges.a[d]) - 1) :
            InBin(Sample(pts)[i][d], edges.a[d], k)
                <=> InBin(Sample(pts)[j][d], edges.a[d], k)})

(* C9: in the pipeline generator -> edgesFromPoints -> cellVolumes the    *)
(* volume vector has one entry per point of the generator's point set,    *)
(* in the same order, and entry i is 1 / (points in the cell of point i   *)
(* * total number of points).                                             *)
C9_VolumesParallelToPoints ==
    (pc = "volumes" /\ pts = grid.points) =>
        /\ vol.kind = "array"
        /\ Len(vol.a) = Prod(Lens(Ladders(grid)))
        /\ \A i \in 1..Len(vol.a) :
               vol.a[i] = RDiv(R(1), R(CountInCellOf(i) * Prod(Lens(Ladders(grid)))))

(* C10: when a cell of the histogram holds no point, cellVolumes fails    *)
(* with a DegenerateCellError or gives that cell the volume 0; no volume  *)
(* is infinite.                                                           *)
C10_EmptyCellIsExplicit ==
    (pc = "volumes" /\ vol.kind # "ValueError"
        /\ \E k \in 1..Prod(NBins(edges.a)) : H(edges.a, Sample(pts))[k] = 0) =>
        \/ vol.kind = "DegenerateCellError"
        \/ /\ vol.kind = "array"
           /\ \A k \in 1..Len(vol.a) :
                /\ IsFinite(vol.a[k])
                /\ H(edges.a, Sample(pts))[k] = 0 => vol.a[k] = R(0)

(* C11: for a domain of more than 4 dimensions singleLayerGrid and       *)
(* doubleLayerGrid end in a DimensionError; they never return a result    *)
(* whose point set is missing while the ladders are present.              *)
C11_TooManyDimensionsIsError ==
    (gen \in {"single", "double"} /\ Len(inp.sur_domain) > MaxMeshDim
        /\ PassesValidation) =>
        grid.kind = "DimensionError"

(* the i-th of cellsPerEdge+1 equally spaced edges of the hyperrectangle *)
RectEdge(d, i) ==
    RAdd(Rect[d][1], RDiv(RMul(R(i - 1), RectWidth[d]), R(Cells(d))))

(* C12: for an accepted input regularEdges returns per dimension the      *)
(* cellsPerEdge+1 equally spaced edges from the hyperrectangle minimum to *)
(* its maximum, for ratio < 1 with the domain minimum in front and the    *)
(* domain maximum behind (cellsPerEdge+3 entries), for ratio = 1 as they  *)
(* are.                                                                   *)
C12_RegularEdgesOfHyperrectangle ==
    (gen = "regular" /\ PassesValidation) =>
        /\ edges.kind = "list"
        /\ \A d \in Dims :
            IF RLt(inp.r_ratio, R(1))
            THEN /\ Len(edges.a[d]) = Cells(d) + 3
                 /\ edges.a[d][1] = inp.sur_domain[d][1]
                 /\ edges.a[d][Cells(d) + 3] = inp.sur_domain[d][2]
                 /\ \A i \in 1..(Cells(d) + 1) : edges.a[d][i + 1] = RectEdge(d, i)
            ELSE /\ Len(edges.a[d]) = Cells(d) + 1
                 /\ \A i \in 1..(Cells(d) + 1) : edges.a[d][i] = RectEdge(d, i)

(* C13: pointsFromEdges(e) returns, per dimension, the midpoints          *)
(* (e[i]+e[i+1])/2 of consecutive edges, and edgesFromPoints of those     *)
(* points gives len(e)-2 entries per dimension, the interior edges of e   *)
(* (the edges here are equally spaced).                                   *)
C13_PointsFromEdgesRoundTrip ==
    pc = "points" =>
        /\ cellpts.kind = "array"
        /\ \A d \in 1..Len(edges.a) :
            /\ Len(cellpts.centers[d]) = Len(edges.a[d]) - 1
            /\ \A i \in 1..(Len(edges.a[d]) - 1) :
                   cellpts.centers[d][i]
                       = RDiv(RAdd(edges.a[d][i], edges.a[d][i + 1]), R(2))
            /\ Len(edges_from_points(cellpts.centers)[d]) = Len(edges.a[d]) - 2
            /\ edges_from_points(cellpts.centers)[d]
                   = SubSeq(edges.a[d], 2, Len(edges.a[d]) - 1)

NonDecreasing(ladder) ==
    \A i \in 1..(Len(ladder) - 1) : RLe(ladder[i], ladder[i + 1])

(* C14: for an input that passes the validation every ladder that        *)
(* singleLayerGrid and doubleLayerGrid return is non-decreasing, and the  *)
(* layer-2 anchor doubleLayerGrid places for ratio < 1 never lies inside  *)
(* the layer-1 anchor, also when the layer-1 anchor is outside the        *)
(* domain.                                                                *)
C14_LaddersNonDecreasing ==
    (gen \in {"single", "double"} /\ PassesValidation) =>
        /\ grid.kind = "tuple" =>
            \A d \in Dims :
                /\ NonDecreasing(grid.interior_and_layer1[d])
                /\ gen = "double" => NonDecreasing(grid.interior_and_doublelayer[d])
        /\ (gen = "double" /\ RLt(inp.r_ratio, R(1))) =>
            /\ grid.kind \in {"tuple", "UnboundLocalError"}
            /\ \A d \in Dims :
                RLe(IF grid.kind = "tuple" THEN grid.interior_and_doublelayer[d][1]
                    ELSE grid.layer2_left[d],
                    layer1_left(Rect, RectWidth, inp.center_pts_per_edge)[d])

====
